---- MODULE Spec2Model ----
(***************************************************************************)
(* Model of the reconciliation command `process` and the watch handler of  *)
(* src/cli/cli.py and of the OCR pipeline of src/pipeline/ocr_module.py.   *)
(***************************************************************************)
EXTENDS Integers, Sequences, FiniteSets, TLC

(***************************************************************************)
(* Bounds of the model.                                                    *)
(***************************************************************************)
\* longest list of roots (the `paths` argument) given to process
MaxRoots == 2
\* most pages of a PDF
MaxPages == 3
\* largest worker pool (max_workers) a processor is configured with
MaxWorkers == 2
\* most tokens the OCR engine detects in one image
MaxTokens == 3
\* longest side, in pixels, of an image given to the preprocessor
MaxSide == 3

(***************************************************************************)
(* Paths.  A path is the sequence of its components, as pathlib.Path keeps *)
(* it; the universe is one directory d with a sub-directory d/s.           *)
(***************************************************************************)
DirD == <<"d">>
DirS == <<"d", "s">>
FileA == <<"d", "a.pdf">>
FileB == <<"d", "b.png">>
FileC == <<"d", "c.txt">>
FileE == <<"d", "s", "e.pdf">>

Dirs == {DirD, DirS}
Files == {FileA, FileB, FileC, FileE}

\* the roots a scope is drawn from
RootChoices == {DirD, DirS, FileA}

\* the orders in which a directory scan may list the entries
ListingOrders == {<<DirS, FileA, FileB, FileC, FileE>>,
                  <<FileE, FileC, FileB, FileA, DirS>>}

\* the classifiers: the sets of files FileDetector.should_process_file accepts
Classifiers == {Files, Files \ {FileB}}

Range(s) == {s[i] : i \in 1..Len(s)}

SeqsUpTo(S, n) == UNION {[1..k -> S] : k \in 0..n}

\* Path.parent
Parent(p) == SubSeq(p, 1, Len(p) - 1)

\* p lies strictly below the directory base
IsBelow(base, p) == Len(p) > Len(base) /\ SubSeq(p, 1, Len(base)) = base

VARIABLES
    fs,          \* the regular files present on disk
    recorded,    \* the paths of the documents the store records
    accepted,    \* the files the classifier accepts
    paths,       \* the scope: the roots given on the command line
    recursive,   \* the scope: the --recursive flag
    last,        \* what the latest process invocation computed and called
    prev,        \* the plan of the invocation before it
    excluded_patterns, \* watch: processing.excluded_patterns of the configuration
    handled,     \* watch: the latest event given to handle_event and what it did
    failedBefore,\* watch: a store call raised while an earlier event was handled
    watching,    \* watch: no exception has escaped the handler into the watcher
    max_workers, \* pdf: self.max_workers
    pdfPc,       \* pdf: where process_pdf's thread stands
    nPages,      \* pdf: len(images), the pages convert_from_path returned
    tempFiles,   \* pdf: the pages whose temporary image exists in temp_dir
    task,        \* pdf: the state of the future of each page
    taskResult,  \* pdf: the result of the future of each page
    completed,   \* pdf: the pages in the order their futures completed
    collected,   \* pdf: number of futures the collecting loop has passed
    results,     \* pdf: the list `results`
    pdfRaised,   \* pdf: an exception reached process_pdf's except clause
    returned,    \* pdf: the list process_pdf returned
    ocr_data,    \* image: the tokens pytesseract.image_to_data reports
    extraction,  \* image: the latest process_image call: threshold and result
    extractionBefore, \* image: the call before it
    fileCall,    \* file: the latest process_file call: its inputs and its result
    prep         \* preprocessor: the image given to preprocess and what came back

procVars == <<fs, recorded, accepted, paths, recursive, last, prev>>
watchVars == <<excluded_patterns, handled, failedBefore, watching>>
pdfVars == <<max_workers, pdfPc, nPages, tempFiles, task, taskResult, completed,
             collected, results, pdfRaised, returned>>
imgVars == <<ocr_data, extraction, extractionBefore>>
fileVars == <<fileCall>>
prepVars == <<prep>>
vars == <<procVars, watchVars, pdfVars, imgVars, fileVars, prepVars>>

(***************************************************************************)
(* process: enumeration of the current files (cli.py 70-83).               *)
(***************************************************************************)
is_file(p, disk) == p \in disk
is_dir(p) == p \in Dirs

should_process_file(p, acc) == p \in acc

\* path.glob("**/*") or path.glob("*"): the entries below the directory, in
\* the order of the directory scan
Glob(dir, rec, order) ==
    SelectSeq(order, LAMBDA e : IF rec THEN IsBelow(dir, e) ELSE Parent(e) = dir)

\* the files one root appends to files_to_process
EnumerateRoot(root, rec, disk, acc, order) ==
    IF is_file(root, disk)
    THEN IF should_process_file(root, acc) THEN <<root>> ELSE <<>>
    ELSE IF is_dir(root)
         THEN SelectSeq(Glob(root, rec, order),
                        LAMBDA e : is_file(e, disk) /\ should_process_file(e, acc))
         ELSE <<>>

RECURSIVE FilesToProcess(_, _, _, _, _)
FilesToProcess(roots, rec, disk, acc, order) ==
    IF roots = <<>> THEN <<>>
    ELSE EnumerateRoot(Head(roots), rec, disk, acc, order)
         \o FilesToProcess(Tail(roots), rec, disk, acc, order)

(***************************************************************************)
(* process: the previously ingested files (cli.py 85-91).                  *)
(***************************************************************************)
\* base_path = path if path.is_dir() else path.parent
BasePath(root) == IF is_dir(root) THEN root ELSE Parent(root)

\* Archivist.get_documents_in_directory(base_path, recursive)
GetDocumentsInDirectory(base, rec, docs) ==
    {d \in docs : IF rec THEN IsBelow(base, d) ELSE Parent(d) = base}

PreviousFiles(roots, rec, docs) ==
    UNION {GetDocumentsInDirectory(BasePath(roots[i]), rec, docs) : i \in 1..Len(roots)}

\* Archivist.remove_document and Archivist.ingest_file: the store after the
\* calls that returned
remove_document(docs, removed) == docs \ removed
ingest_file(docs, ingested) == docs \cup ingested

\* a bug: the current files are not taken out of the previous ones
DeletedFilesAllPrevious(previous, current) == previous

\* deleted_files = previous_files - current_files
DeletedFiles(previous, current) == previous \ current

(***************************************************************************)
(* process: the whole command (cli.py 64-132).  A fault is the exception   *)
(* one of the calls of the command raises.                                 *)
(***************************************************************************)
NoFault == [kind |-> "none", at |-> <<>>, before |-> {}, k |-> 0]

\* the subsequence of s without its i-th element
Without(s, i) == SubSeq(s, 1, i - 1) \o SubSeq(s, i + 1, Len(s))

NoRun == [outcome |-> "none", planned |-> FALSE, dry_run |-> FALSE,
          store |-> {}, failedRoot |-> 0,
          current |-> {}, previous |-> {}, deleted_files |-> {},
          files_to_process |-> <<>>, removeCalls |-> {}, removeFailed |-> {},
          ingestCalls |-> <<>>, ingestFailed |-> 0]

\* the faults that can happen in an invocation with this plan
Faults(roots, dry, scan, deleted) ==
    {NoFault}
    \cup (IF roots # <<>>
          THEN {[NoFault EXCEPT !.kind = kd, !.k = i] :
                    kd \in {"scan", "query"}, i \in 1..Len(roots)}
          ELSE {})
    \cup (IF dry THEN {}
          ELSE UNION {{[NoFault EXCEPT !.kind = "remove", !.at = x, !.before = b] :
                         b \in SUBSET (deleted \ {x})} : x \in deleted})
    \cup (IF dry THEN {}
          ELSE {[NoFault EXCEPT !.kind = "ingest", !.k = i] : i \in 1..Len(scan)})

\* the result of process: the record of the invocation and the store after it
ProcessResult(roots, rec, dry, disk, acc, docs, order, fault) ==
    LET scan     == FilesToProcess(roots, rec, disk, acc, order)
        current  == Range(scan)
        previous == PreviousFiles(roots, rec, docs)
        deleted  == DeletedFiles(previous, current)
        plan     == [NoRun EXCEPT !.planned = TRUE, !.dry_run = dry,
                                  !.store = docs,
                                  !.current = current, !.previous = previous,
                                  !.deleted_files = deleted,
                                  !.files_to_process = scan]
    IN  CASE fault.kind \in {"scan", "query"} ->
               [run |-> [NoRun EXCEPT !.outcome = "aborted", !.dry_run = dry,
                                      !.store = docs, !.failedRoot = fault.k],
                docs |-> docs]
          [] fault.kind = "none" /\ scan = <<>> /\ deleted = {} ->
               [run |-> [plan EXCEPT !.outcome = "nochange"], docs |-> docs]
          [] fault.kind = "none" /\ ~(scan = <<>> /\ deleted = {}) /\ dry ->
               [run |-> [plan EXCEPT !.outcome = "dry"], docs |-> docs]
          [] fault.kind = "none" /\ ~(scan = <<>> /\ deleted = {}) /\ ~dry ->
               [run |-> [plan EXCEPT !.outcome = "ok",
                                     !.removeCalls = deleted,
                                     !.ingestCalls = scan],
                docs |-> ingest_file(remove_document(docs, deleted), current)]
          [] fault.kind = "remove" ->
               [run |-> [plan EXCEPT !.outcome = "aborted",
                                     !.removeCalls = fault.before \cup {fault.at},
                                     !.removeFailed = {fault.at}],
                docs |-> remove_document(docs, fault.before)]
          [] fault.kind = "ingest" ->
               [run |-> [plan EXCEPT !.outcome = "aborted",
                                     !.removeCalls = deleted,
                                     !.ingestCalls = SubSeq(scan, 1, fault.k),
                                     !.ingestFailed = fault.k],
                docs |-> ingest_file(remove_document(docs, deleted),
                                   Range(SubSeq(scan, 1, fault.k - 1)))]

\* the part of an invocation the next one is compared with
PlanOf(run) ==
    [outcome |-> run.outcome, planned |-> run.planned,
     to_process |-> Range(run.files_to_process),
     to_retire |-> run.deleted_files]

NoPlan == PlanOf(NoRun)

Invoke ==
    \* click.Path(exists=True): every root exists when the command starts
    /\ \A i \in 1..Len(paths) : is_file(paths[i], fs) \/ is_dir(paths[i])
    /\ \E dry \in BOOLEAN, order \in ListingOrders :
         LET scan    == FilesToProcess(paths, recursive, fs, accepted, order)
             deleted == DeletedFiles(PreviousFiles(paths, recursive, recorded), Range(scan))
         IN  \E fault \in Faults(paths, dry, scan, deleted) :
               LET r == ProcessResult(paths, recursive, dry, fs, accepted,
                                      recorded, order, fault)
               IN  /\ last' = r.run
                   /\ recorded' = r.docs
    /\ prev' = PlanOf(last)
    /\ UNCHANGED <<fs, accepted, paths, recursive>>
    /\ UNCHANGED <<watchVars, pdfVars, imgVars, fileVars, prepVars>>

\* the first invocation of the command on the scope
Process ==
    /\ last.outcome = "none"
    /\ Invoke

\* the command is run again on the same scope; the filesystem has not changed
Reprocess ==
    /\ last.outcome # "none"
    /\ Invoke

\* the scopes the command is run on repeatedly
RerunScopes == {<<>>, <<DirD>>, <<DirS>>, <<FileA>>, <<DirS, FileA>>, <<DirD, FileA>>}

ProcIdle ==
    /\ fs = {} /\ recorded = {} /\ accepted = Files
    /\ paths = <<>> /\ recursive = FALSE
    /\ last = NoRun /\ prev = NoPlan

(***************************************************************************)
(* watch: the event handler (cli.py 419-439).                              *)
(***************************************************************************)
\* the extension of a path component, "" when it has none
Extension(name) ==
    CASE name \in {"a.pdf", "e.pdf"} -> "pdf"
      [] name = "b.png" -> "png"
      [] name = "c.txt" -> "txt"
      [] name = "x.tmp" -> "tmp"
      [] OTHER -> ""

\* fnmatch of one path component against one pattern component
FnMatch(name, pat) ==
    CASE pat = "*" -> TRUE
      [] pat = "*.tmp" -> Extension(name) = "tmp"
      [] pat = "*.pdf" -> Extension(name) = "pdf"
      [] OTHER -> name = pat

\* PurePath.match with a relative pattern: the pattern's components are
\* matched against the last components of the path
PathMatch(p, pattern) ==
    /\ Len(pattern) > 0
    /\ Len(pattern) <= Len(p)
    /\ \A i \in 1..Len(pattern) :
         FnMatch(p[Len(p) - Len(pattern) + i], pattern[i])

\* any(event.path.match(pattern) for pattern in excluded_patterns)
IsExcluded(p, patterns) == \E pattern \in patterns : PathMatch(p, pattern)

PatternChoices == {<<"*.tmp">>, <<"s", "*">>}

EventPaths == {FileA, <<"d", "x.tmp">>, FileE, DirS}
EventTypes == {"created", "modified", "deleted"}
Events == [path : EventPaths, event_type : EventTypes, is_directory : BOOLEAN]

NoEvent == [event |-> [path |-> <<>>, event_type |-> "none", is_directory |-> FALSE],
            calls |-> <<>>, raised |-> FALSE, escaped |-> FALSE]

\* a bug: the deleted branch does not look at is_directory
handle_event_dir_deleted(event, patterns, fails) ==
    LET quiet == [event |-> event, calls |-> <<>>, raised |-> FALSE, escaped |-> FALSE]
    IN  IF event.event_type \in {"created", "modified"}
        THEN IF event.is_directory \/ IsExcluded(event.path, patterns)
             THEN quiet
             ELSE [quiet EXCEPT !.calls = <<[op |-> "ingest_file", path |-> event.path]>>,
                                !.raised = fails]
        ELSE IF event.event_type = "deleted"
             THEN [quiet EXCEPT !.calls = <<[op |-> "remove_document", path |-> event.path]>>,
                                !.raised = fails]
             ELSE quiet

\* a bug: the handler has no except clause, the exception of the store call
\* leaves it
handle_event_no_except(event, patterns, fails) ==
    LET quiet == [event |-> event, calls |-> <<>>, raised |-> FALSE, escaped |-> FALSE]
    IN  IF event.is_directory
        THEN quiet
        ELSE IF event.event_type \in {"created", "modified"}
             THEN IF IsExcluded(event.path, patterns)
                  THEN quiet
                  ELSE [quiet EXCEPT !.calls = <<[op |-> "ingest_file", path |-> event.path]>>,
                                     !.raised = fails, !.escaped = fails]
             ELSE IF event.event_type = "deleted"
                  THEN [quiet EXCEPT !.calls = <<[op |-> "remove_document", path |-> event.path]>>,
                                     !.raised = fails, !.escaped = fails]
                  ELSE quiet

\* handle_event(event): the store calls it makes, whether one of them raised
\* (`fails`: the store call of this event raises) and whether the exception
\* left the handler
handle_event(event, patterns, fails) ==
    LET quiet == [event |-> event, calls |-> <<>>, raised |-> FALSE, escaped |-> FALSE]
    IN  IF event.event_type \in {"created", "modified"}
        THEN IF event.is_directory
             THEN quiet
             ELSE IF IsExcluded(event.path, patterns)
                  THEN quiet
                  ELSE [quiet EXCEPT !.calls = <<[op |-> "ingest_file", path |-> event.path]>>,
                                     !.raised = fails]
        ELSE IF event.event_type = "deleted"
             THEN IF event.is_directory
                  THEN quiet
                  ELSE [quiet EXCEPT !.calls = <<[op |-> "remove_document", path |-> event.path]>>,
                                     !.raised = fails]
             ELSE quiet

\* the watcher delivers one event to the callback
HandleEvent ==
    /\ watching
    /\ \E event \in Events, fails \in BOOLEAN :
         LET r == handle_event(event, excluded_patterns, fails)
         IN  /\ handled' = r
             /\ failedBefore' = (failedBefore \/ handled.raised)
             /\ watching' = ~r.escaped
    /\ UNCHANGED excluded_patterns
    /\ UNCHANGED <<procVars, pdfVars, imgVars, fileVars, prepVars>>

WatchIdle ==
    /\ excluded_patterns = {}
    /\ handled = NoEvent
    /\ failedBefore = FALSE
    /\ watching = TRUE

(***************************************************************************)
(* OCRProcessor.process_image (ocr_module.py 120-169).                     *)
(***************************************************************************)
\* one detected token: a row of the columns of ocr_data
TokenChoices ==
    {[text |-> "cat", conf |-> 70, left |-> 0, top |-> 0, width |-> 3, height |-> 1],
     [text |-> "dog", conf |-> 40, left |-> 4, top |-> 0, width |-> 3, height |-> 1],
     [text |-> "owl", conf |-> 60, left |-> 0, top |-> 2, width |-> 3, height |-> 1],
     [text |-> "", conf |-> -1, left |-> 0, top |-> 0, width |-> 8, height |-> 4]}

\* the values of confidence_threshold a processor is configured with
Thresholds == {40, 60, 70}

\* ocr_data: the dictionary of parallel lists of pytesseract.Output.DICT
OcrDict(tokens) ==
    [conf   |-> [i \in 1..Len(tokens) |-> tokens[i].conf],
     text   |-> [i \in 1..Len(tokens) |-> tokens[i].text],
     left   |-> [i \in 1..Len(tokens) |-> tokens[i].left],
     top    |-> [i \in 1..Len(tokens) |-> tokens[i].top],
     width  |-> [i \in 1..Len(tokens) |-> tokens[i].width],
     height |-> [i \in 1..Len(tokens) |-> tokens[i].height]]

\* a bug: a token at the threshold is kept
RetainedAtThreshold(conf, threshold) == conf >= threshold

\* if conf > self.confidence_threshold
Retained(conf, threshold) == conf > threshold

\* ' '.join(text_parts): the parts with one " " between neighbours
RECURSIVE Join(_)
Join(parts) ==
    IF parts = <<>> THEN <<>>
    ELSE IF Len(parts) = 1 THEN parts
         ELSE <<Head(parts), " ">> \o Join(Tail(parts))

RECURSIVE SumSeq(_)
SumSeq(s) == IF s = <<>> THEN 0 ELSE Head(s) + SumSeq(Tail(s))

\* np.mean(confidences) if confidences else 0.0, as the fraction num/den
ZeroConfidence == [num |-> 0, den |-> 1]
AvgConfidence(confidences) ==
    IF confidences # <<>>
    THEN [num |-> SumSeq(confidences), den |-> Len(confidences)]
    ELSE ZeroConfidence

\* the loop over enumerate(ocr_data['conf']): the three lists after the
\* first i tokens
RECURSIVE Scan(_, _, _)
Scan(ocr, threshold, i) ==
    IF i = 0
    THEN [text_parts |-> <<>>, confidences |-> <<>>, boxes |-> <<>>]
    ELSE LET acc == Scan(ocr, threshold, i - 1)
         IN  IF Retained(ocr.conf[i], threshold)
             THEN [text_parts  |-> Append(acc.text_parts, ocr.text[i]),
                   confidences |-> Append(acc.confidences, ocr.conf[i]),
                   boxes |-> Append(acc.boxes,
                                    [text |-> ocr.text[i], conf |-> ocr.conf[i],
                                     left |-> ocr.left[i], top |-> ocr.top[i],
                                     width |-> ocr.width[i], height |-> ocr.height[i]])]
             ELSE acc

NoResult == [none |-> TRUE, text |-> <<>>, confidence |-> ZeroConfidence,
             bounding_boxes |-> <<>>, page_number |-> -1, source |-> -1]

\* process_image: `raises` is an exception of Image.open, the preprocessor or
\* the OCR engine, which the except clause turns into None
process_image(ocr, threshold, raises) ==
    IF raises THEN NoResult
    ELSE LET acc == Scan(ocr, threshold, Len(ocr.conf))
         IN  [none |-> FALSE,
              text |-> Join(acc.text_parts),
              confidence |-> AvgConfidence(acc.confidences),
              bounding_boxes |-> acc.boxes,
              page_number |-> -1, source |-> -1]

NoExtraction == [called |-> FALSE, threshold |-> 0, result |-> NoResult]

\* a processor configured with some threshold extracts the image
ExtractImage ==
    /\ \E threshold \in Thresholds, raises \in BOOLEAN :
         extraction' = [called |-> TRUE, threshold |-> threshold,
                        result |-> process_image(ocr_data, threshold, raises)]
    /\ extractionBefore' = extraction
    /\ UNCHANGED ocr_data
    /\ UNCHANGED <<procVars, watchVars, pdfVars, fileVars, prepVars>>

ImgIdle ==
    /\ ocr_data = OcrDict(<<>>)
    /\ extraction = NoExtraction
    /\ extractionBefore = NoExtraction

(***************************************************************************)
(* OCRProcessor.process_pdf and _process_pdf_page (ocr_module.py 171-215). *)
(* Pages are numbered from 0, as enumerate numbers them.                   *)
(***************************************************************************)
Pages == 0..(nPages - 1)

\* _process_pdf_page(image_path, page_number): the result of process_image on
\* the temporary image `source`, tagged with page_number; None when
\* process_image returned None
process_pdf_page(source, page_number, readable, succeeds) ==
    IF readable /\ succeeds
    THEN [NoResult EXCEPT !.none = FALSE, !.source = source,
                          !.page_number = page_number]
    ELSE NoResult

\* a bug: the futures are collected as they complete
NextFutureAsCompleted(done, order) ==
    IF done < Len(order) THEN order[done + 1] ELSE -1

\* the future the collecting loop waits for next: `for future in futures`
NextFuture(done, order) == done

\* images = pdf2image.convert_from_path(pdf_path)
ConvertPdf ==
    /\ pdfPc = "start"
    /\ \/ \E n \in 0..MaxPages :
            /\ nPages' = n
            /\ pdfPc' = "saving"
            /\ UNCHANGED <<pdfRaised, returned>>
       \/ /\ pdfRaised' = TRUE
          /\ returned' = <<>>
          /\ pdfPc' = "done"
          /\ UNCHANGED nPages
    /\ UNCHANGED <<max_workers, tempFiles, task, taskResult, completed, collected, results>>
    /\ UNCHANGED <<procVars, watchVars, imgVars, fileVars, prepVars>>

\* image.save(temp_path) of the next page; when it raises, the temporary
\* directory and the executor are left and the except clause returns []
SavePage ==
    /\ pdfPc = "saving"
    /\ Cardinality(tempFiles) < nPages
    /\ \/ /\ tempFiles' = tempFiles \cup {Cardinality(tempFiles)}
          /\ UNCHANGED <<pdfPc, pdfRaised, returned>>
       \/ /\ tempFiles' = {}
          /\ pdfRaised' = TRUE
          /\ returned' = <<>>
          /\ pdfPc' = "done"
    /\ UNCHANGED <<max_workers, nPages, task, taskResult, completed, collected, results>>
    /\ UNCHANGED <<procVars, watchVars, imgVars, fileVars, prepVars>>

\* futures = [executor.submit(self._process_pdf_page, path, i) ...]
SubmitPages ==
    /\ pdfPc = "saving"
    /\ Cardinality(tempFiles) = nPages
    /\ task' = [i \in Pages |-> "queued"]
    /\ taskResult' = [i \in Pages |-> NoResult]
    /\ pdfPc' = "collect"
    /\ UNCHANGED <<max_workers, nPages, tempFiles, completed, collected, results,
                   pdfRaised, returned>>
    /\ UNCHANGED <<procVars, watchVars, imgVars, fileVars, prepVars>>

\* a free worker of the pool takes the oldest queued task
WorkerStart ==
    /\ \E i \in DOMAIN task :
         /\ task[i] = "queued"
         /\ \A j \in DOMAIN task : j < i => task[j] # "queued"
         /\ Cardinality({j \in DOMAIN task : task[j] = "running"}) < max_workers
         /\ task' = [task EXCEPT ![i] = "running"]
    /\ UNCHANGED <<max_workers, pdfPc, nPages, tempFiles, taskResult, completed,
                   collected, results, pdfRaised, returned>>
    /\ UNCHANGED <<procVars, watchVars, imgVars, fileVars, prepVars>>

\* a worker finishes _process_pdf_page for its page
WorkerFinish ==
    /\ \E i \in DOMAIN task, succeeds \in BOOLEAN :
         /\ task[i] = "running"
         /\ task' = [task EXCEPT ![i] = "done"]
         /\ taskResult' = [taskResult EXCEPT
                             ![i] = process_pdf_page(i, i, i \in tempFiles, succeeds)]
         /\ completed' = Append(completed, i)
    /\ UNCHANGED <<max_workers, pdfPc, nPages, tempFiles, collected, results,
                   pdfRaised, returned>>
    /\ UNCHANGED <<procVars, watchVars, imgVars, fileVars, prepVars>>

\* result = future.result(); if result: results.append(result)
CollectResult ==
    /\ pdfPc = "collect"
    /\ collected < nPages
    /\ LET f == NextFuture(collected, completed)
       IN  /\ f \in DOMAIN task
           /\ task[f] = "done"
           /\ results' = IF taskResult[f].none THEN results
                         ELSE Append(results, taskResult[f])
    /\ collected' = collected + 1
    /\ UNCHANGED <<max_workers, pdfPc, nPages, tempFiles, task, taskResult, completed,
                   pdfRaised, returned>>
    /\ UNCHANGED <<procVars, watchVars, imgVars, fileVars, prepVars>>

\* the end of `with tempfile.TemporaryDirectory()`: the images are removed
LeaveTempDir ==
    /\ pdfPc = "collect"
    /\ collected = nPages
    /\ tempFiles' = {}
    /\ pdfPc' = "shutdown"
    /\ UNCHANGED <<max_workers, nPages, task, taskResult, completed, collected,
                   results, pdfRaised, returned>>
    /\ UNCHANGED <<procVars, watchVars, imgVars, fileVars, prepVars>>

\* the end of `with ThreadPoolExecutor()`: shutdown(wait=True), then
\* return results
LeaveExecutor ==
    /\ pdfPc = "shutdown"
    /\ \A i \in DOMAIN task : task[i] = "done"
    /\ returned' = results
    /\ pdfPc' = "done"
    /\ UNCHANGED <<max_workers, nPages, tempFiles, task, taskResult, completed,
                   collected, results, pdfRaised>>
    /\ UNCHANGED <<procVars, watchVars, imgVars, fileVars, prepVars>>

\* a KeyboardInterrupt reaches the thread of process_pdf inside the collecting
\* loop: it unwinds through the inner `with`, which removes the temporary
\* directory, before the outer `with` waits for the pool
Interrupt ==
    /\ pdfPc = "collect"
    /\ collected < nPages
    /\ tempFiles' = {}
    /\ pdfPc' = "unwinding"
    /\ UNCHANGED <<max_workers, nPages, task, taskResult, completed, collected,
                   results, pdfRaised, returned>>
    /\ UNCHANGED <<procVars, watchVars, imgVars, fileVars, prepVars>>

\* the end of `with ThreadPoolExecutor()` while unwinding: shutdown(wait=True)
\* lets every submitted task run to its end; `except Exception` does not
\* catch the interrupt, which leaves process_pdf
PropagateInterrupt ==
    /\ pdfPc = "unwinding"
    /\ \A i \in DOMAIN task : task[i] = "done"
    /\ pdfPc' = "interrupted"
    /\ UNCHANGED <<max_workers, nPages, tempFiles, task, taskResult, completed,
                   collected, results, pdfRaised, returned>>
    /\ UNCHANGED <<procVars, watchVars, imgVars, fileVars, prepVars>>

PdfStart ==
    /\ pdfPc = "start"
    /\ nPages = 0
    /\ tempFiles = {}
    /\ task = <<>>
    /\ taskResult = <<>>
    /\ completed = <<>>
    /\ collected = 0
    /\ results = <<>>
    /\ pdfRaised = FALSE
    /\ returned = <<>>

PdfIdle == max_workers = 1 /\ PdfStart

(***************************************************************************)
(* ImagePreprocessor.preprocess (ocr_module.py 28-51).  An image is its    *)
(* mode, its size and the processing steps its pixels went through.        *)
(***************************************************************************)
ImageModes == {"L", "RGB", "RGBA", "P"}

InputImages ==
    [mode : ImageModes, width : 1..MaxSide, height : 1..MaxSide, steps : {<<>>}]

\* the statements of preprocess that can raise, in program order
PreprocessSteps == <<"convert", "import", "array", "clahe", "denoise", "fromarray">>

\* the place of a step in the program order; 7 for "none": nothing raises
StepIndex(step) ==
    IF step = "none" THEN Len(PreprocessSteps) + 1
    ELSE CHOOSE k \in 1..Len(PreprocessSteps) : PreprocessSteps[k] = step

\* image.convert('L')
ConvertL(image) == [image EXCEPT !.mode = "L", !.steps = Append(@, "gray")]

\* clahe.apply, fastNlMeansDenoising and Image.fromarray on the array of image
Enhance(image) == [image EXCEPT !.steps = @ \o <<"clahe", "denoise">>]

\* the image the except clause returns: the local variable `image`, which the
\* grayscale conversion has rebound when it ran
ImageOnError(image, failAt) ==
    IF image.mode # "L" /\ StepIndex(failAt) > StepIndex("convert")
    THEN ConvertL(image)
    ELSE image

\* preprocess(image): `failAt` is the statement that raises, "none" when
\* none does
preprocess(image, failAt) ==
    IF failAt = "none"
    THEN [image |-> Enhance(IF image.mode # "L" THEN ConvertL(image) ELSE image),
          raised |-> FALSE]
    ELSE [image |-> ImageOnError(image, failAt), raised |-> FALSE]

\* the statements that can raise for this image: convert runs only when the
\* image is not grayscale yet
PreprocessFaults(image) ==
    ({"none"} \cup {PreprocessSteps[k] : k \in 1..Len(PreprocessSteps)})
       \ (IF image.mode = "L" THEN {"convert"} ELSE {})

Preprocess ==
    /\ ~prep.called
    /\ \E failAt \in PreprocessFaults(prep.image) :
         LET r == preprocess(prep.image, failAt)
         IN  prep' = [prep EXCEPT !.called = TRUE, !.failAt = failAt,
                                  !.output = r.image, !.raised = r.raised]
    /\ UNCHANGED <<procVars, watchVars, pdfVars, imgVars, fileVars>>

NoPrep(image) == [called |-> FALSE, image |-> image, failAt |-> "none",
                  output |-> image, raised |-> FALSE]

PrepIdle == prep = NoPrep([mode |-> "L", width |-> 1, height |-> 1, steps |-> <<>>])

(***************************************************************************)
(* OCRProcessor.process_file (ocr_module.py 217-234).                      *)
(***************************************************************************)
ImageFile == <<"d", "b.png">>
FileNames == {ImageFile, <<"d", "a.pdf">>, <<"d", "SCAN.PDF">>}

\* str(file_path).lower().endswith('.pdf')
EndsWithPdf(path) == path[Len(path)] \in {"a.pdf", "e.pdf", "SCAN.PDF"}

\* what page.extract_text() gives for one page: text, nothing, or None
PageTexts == {"text", "", "None"}

\* what pdfplumber does with the file: open raises, or the texts of the pages
PlumberOutcomes == {<<"raises">>} \cup
    {<<"pages", pages>> : pages \in SeqsUpTo(PageTexts, MaxPages)}

\* "\n".join(...): the parts with one "\n" between neighbours
RECURSIVE JoinLines(_)
JoinLines(parts) ==
    IF parts = <<>> THEN <<>>
    ELSE IF Len(parts) = 1 THEN parts
         ELSE <<Head(parts), "\n">> \o JoinLines(Tail(parts))

NoText == [none |-> TRUE, text |-> <<>>]

\* super().process_file(file_path, **kwargs): OCRProcessor has no base class
\* but object, which has no process_file, so the lookup raises AttributeError
SuperProcessFile(path) == [raised |-> TRUE, value |-> NoText]

\* the fallback for PDFs; a page whose extract_text() is None makes join raise
FallbackText(plumber) ==
    IF plumber[1] = "raises" THEN NoText
    ELSE IF \E k \in 1..Len(plumber[2]) : plumber[2][k] = "None"
         THEN NoText
         ELSE [none |-> FALSE, text |-> JoinLines(plumber[2])]

process_file(path, plumber) ==
    LET primary == SuperProcessFile(path)
    IN  IF ~primary.raised THEN primary.value
        ELSE IF EndsWithPdf(path) THEN FallbackText(plumber)
             ELSE NoText

NoFileCall == [called |-> FALSE, path |-> <<>>, threshold |-> 0, image_ok |-> FALSE,
               plumber |-> <<"raises">>, result |-> NoText]

\* process_file on an image (whose page extraction succeeds or not) or on a
\* PDF (with some behaviour of pdfplumber)
ProcessFile ==
    /\ ~fileCall.called
    /\ \E threshold \in Thresholds :
         \/ \E ok \in BOOLEAN :
              fileCall' = [called |-> TRUE, path |-> ImageFile, threshold |-> threshold,
                           image_ok |-> ok, plumber |-> <<"raises">>,
                           result |-> process_file(ImageFile, <<"raises">>)]
         \/ \E path \in FileNames \ {ImageFile}, plumber \in PlumberOutcomes :
              fileCall' = [called |-> TRUE, path |-> path, threshold |-> threshold,
                           image_ok |-> FALSE, plumber |-> plumber,
                           result |-> process_file(path, plumber)]
    /\ UNCHANGED <<procVars, watchVars, pdfVars, imgVars, prepVars>>

FileIdle == fileCall = NoFileCall

InitProcess ==
    /\ fs \in SUBSET Files
    /\ recorded \in SUBSET Files
    /\ accepted \in Classifiers
    /\ paths \in SeqsUpTo(RootChoices, MaxRoots)
    /\ recursive \in BOOLEAN
    /\ last = NoRun
    /\ prev = NoPlan
    /\ WatchIdle /\ PdfIdle /\ ImgIdle /\ FileIdle /\ PrepIdle

NextProcess == Process

SpecProcess == InitProcess /\ [][NextProcess]_vars

InitRerun ==
    /\ fs \in SUBSET Files
    /\ recorded \in SUBSET Files
    /\ accepted \in Classifiers
    /\ paths \in RerunScopes
    /\ recursive \in BOOLEAN
    /\ last = NoRun
    /\ prev = NoPlan
    /\ WatchIdle /\ PdfIdle /\ ImgIdle /\ FileIdle /\ PrepIdle

NextRerun == Process \/ Reprocess

SpecRerun == InitRerun /\ [][NextRerun]_vars

InitWatch ==
    /\ ProcIdle /\ PdfIdle /\ ImgIdle /\ FileIdle /\ PrepIdle
    /\ excluded_patterns \in SUBSET PatternChoices
    /\ handled = NoEvent
    /\ failedBefore = FALSE
    /\ watching = TRUE

NextWatch == HandleEvent

SpecWatch == InitWatch /\ [][NextWatch]_vars

InitPdf ==
    /\ ProcIdle /\ WatchIdle /\ ImgIdle /\ FileIdle /\ PrepIdle
    /\ max_workers \in 1..MaxWorkers
    /\ PdfStart

NextPdf ==
    \/ ConvertPdf \/ SavePage \/ SubmitPages \/ WorkerStart \/ WorkerFinish
    \/ CollectResult \/ LeaveTempDir \/ LeaveExecutor
    \/ Interrupt \/ PropagateInterrupt

SpecPdf == InitPdf /\ [][NextPdf]_vars

InitImage ==
    /\ ProcIdle /\ WatchIdle /\ PdfIdle /\ FileIdle /\ PrepIdle
    /\ ocr_data \in {OcrDict(tokens) : tokens \in SeqsUpTo(TokenChoices, MaxTokens)}
    /\ extraction = NoExtraction
    /\ extractionBefore = NoExtraction

NextImage == ExtractImage

SpecImage == InitImage /\ [][NextImage]_vars

InitFile ==
    /\ ProcIdle /\ WatchIdle /\ PdfIdle /\ PrepIdle
    /\ ocr_data \in {OcrDict(tokens) : tokens \in SeqsUpTo(TokenChoices, MaxTokens)}
    /\ extraction = NoExtraction
    /\ extractionBefore = NoExtraction
    /\ fileCall = NoFileCall

NextFile == ProcessFile

SpecFile == InitFile /\ [][NextFile]_vars

InitPreprocess ==
    /\ ProcIdle /\ WatchIdle /\ PdfIdle /\ ImgIdle /\ FileIdle
    /\ prep \in {NoPrep(image) : image \in InputImages}

NextPreprocess == Preprocess

SpecPreprocess == InitPreprocess /\ [][NextPreprocess]_vars

(***************************************************************************)
(* Claims about process.                                                   *)
(***************************************************************************)
\* the plan as the specification words it: the accepted regular files below
\* the roots, and the recorded documents below each root itself (a file root
\* has at most itself below it)
PlannedCurrent(roots, rec, disk, acc) ==
    {f \in disk \cap acc :
        \E i \in 1..Len(roots) :
            \/ roots[i] = f
            \/ roots[i] \in Dirs /\ (IF rec THEN IsBelow(roots[i], f) ELSE Parent(f) = roots[i])}

PlannedPrevious(roots, rec, docs) ==
    {d \in docs :
        \E i \in 1..Len(roots) :
            \/ roots[i] = d
            \/ roots[i] \in Dirs /\ (IF rec THEN IsBelow(roots[i], d) ELSE Parent(d) = roots[i])}

\* C1: whenever process has computed its plan, to_process is the set of
\* accepted regular files enumerated under the roots and to_retire is the
\* store's documents under every root minus that set.
C1_PlanIsDifferenceUnderRoots ==
    last.planned =>
        /\ Range(last.files_to_process) = PlannedCurrent(paths, recursive, fs, accepted)
        /\ last.deleted_files =
              PlannedPrevious(paths, recursive, last.store)
                 \ PlannedCurrent(paths, recursive, fs, accepted)

\* C2: no path is both submitted to ingest_file and passed to remove_document
\* in one invocation, and the planned sets are disjoint.
C2_ProcessRetireDisjoint ==
    /\ Range(last.files_to_process) \cap last.deleted_files = {}
    /\ Range(last.ingestCalls) \cap last.removeCalls = {}

\* a completed run that retired a document and ingested a file that the store
\* already recorded
C2_Witness ==
    /\ last.outcome = "ok"
    /\ last.removeCalls # {}
    /\ Range(last.ingestCalls) \cap last.previous # {}

\* C3: a path is passed to remove_document only if it is gone from the
\* filesystem.
C3_RetireOnlyGone ==
    \A p \in last.removeCalls : ~is_file(p, fs)

\* the files the roots other than the i-th put in the plan, and the documents
\* recorded below them that are no longer there
FilesOfOtherRoots(i) ==
    Range(FilesToProcess(Without(paths, i), recursive, fs, accepted,
                         CHOOSE o \in ListingOrders : TRUE))

\* C5: a failure of one unit of work (one root, one ingest, one retire) leaves
\* every other file of the invocation ingested or retired.
C5_FailureIsolated ==
    /\ (last.outcome = "aborted" /\ last.planned) =>
          /\ last.deleted_files \ last.removeFailed \subseteq last.removeCalls
          /\ \A j \in 1..Len(last.files_to_process) :
                j # last.ingestFailed =>
                   last.files_to_process[j] \in Range(last.ingestCalls)
    /\ (last.outcome = "aborted" /\ ~last.planned /\ ~last.dry_run) =>
          FilesOfOtherRoots(last.failedRoot) \subseteq Range(last.ingestCalls)

\* C4 as stated: of two invocations on the same scope with no filesystem
\* change between them, both compute an empty to_retire and the same
\* to_process.
C4_BothRunsRetireNothing ==
    (prev.planned /\ last.planned) =>
        /\ prev.to_retire = {}
        /\ last.deleted_files = {}
        /\ Range(last.files_to_process) = prev.to_process

\* C4 amended: when the first of the two invocations was no dry run and
\* completed, the second computes an empty to_retire and the same to_process.
C4_RerunRetiresNothing ==
    (prev.outcome \in {"ok", "nochange"} /\ last.planned) =>
        /\ last.deleted_files = {}
        /\ Range(last.files_to_process) = prev.to_process

\* a second invocation after one that retired a document and ingested a file
C4_Witness ==
    /\ prev.outcome = "ok"
    /\ prev.to_retire # {}
    /\ prev.to_process # {}
    /\ last.outcome = "ok"

\* number of ingest_file calls of the latest invocation for the path p
IngestCount(p) ==
    Cardinality({j \in 1..Len(last.ingestCalls) : last.ingestCalls[j] = p})

\* C15: within one invocation every distinct file path is submitted to
\* ingest_file at most once, also when the roots of the scope overlap.
C15_IngestAtMostOnce ==
    \A p \in Files : IngestCount(p) <= 1

(***************************************************************************)
(* Claims about the watch handler.                                         *)
(***************************************************************************)
CallsOf(r, operation) == {i \in 1..Len(r.calls) : r.calls[i].op = operation}

\* C6: an event whose path matches an exclusion pattern invokes neither
\* ingest_file nor remove_document.
C6_ExcludedEventNoAction ==
    IsExcluded(handled.event.path, excluded_patterns) => handled.calls = <<>>

\* the routing rules for one handled event
Routed(r) ==
    /\ r.event.is_directory => r.calls = <<>>
    /\ (/\ ~r.event.is_directory
        /\ r.event.event_type \in {"created", "modified"}
        /\ ~IsExcluded(r.event.path, excluded_patterns)) =>
            r.calls = <<[op |-> "ingest_file", path |-> r.event.path]>>
    /\ (/\ ~r.event.is_directory
        /\ r.event.event_type = "deleted"
        /\ ~IsExcluded(r.event.path, excluded_patterns)) =>
            r.calls = <<[op |-> "remove_document", path |-> r.event.path]>>

\* C7: a directory event invokes nothing; a surviving created or modified
\* event invokes ingest_file on its path exactly once and never
\* remove_document; a surviving deleted event invokes remove_document on its
\* path exactly once and never ingest_file.
C7_EventRouting == Routed(handled)

\* a deleted event of a file that no pattern excludes was routed to
\* remove_document while exclusion patterns are configured
C7_Witness ==
    /\ handled.event.event_type = "deleted"
    /\ ~handled.event.is_directory
    /\ excluded_patterns # {}
    /\ ~IsExcluded(handled.event.path, excluded_patterns)
    /\ Cardinality(CallsOf(handled, "remove_document")) = 1

\* C8: an exception of ingest_file or remove_document never leaves the
\* handler, the watcher keeps delivering, and an event handled after a failed
\* one is routed by the same rules.
C8_HandlerFailureContained ==
    /\ ~handled.escaped
    /\ watching
    /\ failedBefore =>
          /\ handled.event.event_type # "none"
          /\ ((~handled.event.is_directory
               /\ handled.event.event_type \in {"created", "modified"}
               /\ ~IsExcluded(handled.event.path, excluded_patterns))
              => Cardinality(CallsOf(handled, "ingest_file")) = 1)
          /\ ((~handled.event.is_directory /\ handled.event.event_type = "deleted")
              => Cardinality(CallsOf(handled, "remove_document")) = 1)

\* after an event whose store call raised, a later event reached the store
C8_Witness ==
    /\ failedBefore
    /\ watching
    /\ handled.calls # <<>>

(***************************************************************************)
(* Claims about the OCR pipeline.                                          *)
(***************************************************************************)
\* the pages whose extraction succeeded
Succeeded == {i \in DOMAIN taskResult : ~taskResult[i].none}

\* C9: process_pdf returns exactly the results of the pages whose extraction
\* succeeded, each tagged with its own page number, in strictly increasing
\* page-number order, whatever the order in which the workers completed.
C9_PagesInPageOrder ==
    pdfPc = "done" =>
        /\ Len(returned) = Cardinality(Succeeded)
        /\ {returned[k].page_number : k \in 1..Len(returned)} = Succeeded
        /\ \A k \in 1..Len(returned) :
              /\ returned[k].source = returned[k].page_number
              /\ returned[k] = taskResult[returned[k].page_number]
        /\ \A k \in 1..(Len(returned) - 1) :
              returned[k].page_number < returned[k + 1].page_number

\* process_pdf returned two or more pages although a later page completed
\* before an earlier one and one page failed
C9_Witness ==
    /\ pdfPc = "done"
    /\ Len(returned) >= 2
    /\ Cardinality(Succeeded) < nPages
    /\ \E a, b \in 1..Len(completed) :
          /\ a < b /\ completed[a] > completed[b]
          /\ ~taskResult[completed[a]].none /\ ~taskResult[completed[b]].none

\* the tokens of ocr_data whose confidence exceeds t, and the k-th of them in
\* detection order
Kept(t) == {i \in 1..Len(ocr_data.conf) : ocr_data.conf[i] > t}
KeptAt(t, k) == CHOOSE i \in Kept(t) : Cardinality({j \in Kept(t) : j < i}) = k - 1

RECURSIVE SumOver(_, _)
SumOver(f, S) ==
    IF S = {} THEN 0
    ELSE LET x == CHOOSE y \in S : TRUE IN f[x] + SumOver(f, S \ {x})

\* what the claim says of one call
ExtractedAsClaimed(e) ==
    LET t == e.threshold
        r == e.result
        n == Cardinality(Kept(t))
    IN  /\ Len(r.bounding_boxes) = n
        /\ \A k \in 1..n :
              LET i == KeptAt(t, k)
              IN  /\ r.bounding_boxes[k] =
                        [text |-> ocr_data.text[i], conf |-> ocr_data.conf[i],
                         left |-> ocr_data.left[i], top |-> ocr_data.top[i],
                         width |-> ocr_data.width[i], height |-> ocr_data.height[i]]
                  /\ r.text[2 * k - 1] = ocr_data.text[i]
        /\ Len(r.text) = (IF n = 0 THEN 0 ELSE 2 * n - 1)
        /\ \A k \in 1..(n - 1) : r.text[2 * k] = " "
        /\ r.confidence = (IF n = 0 THEN [num |-> 0, den |-> 1]
                           ELSE [num |-> SumOver(ocr_data.conf, Kept(t)), den |-> n])

\* C10: process_image keeps exactly the tokens whose confidence is strictly
\* greater than the threshold, in detection order; the text is their texts
\* joined by single spaces, the boxes are theirs, the confidence is their mean
\* or 0.0 when none is kept; a higher threshold never keeps more tokens; the
\* tokens [(cat,70),(dog,40)] with threshold 60 give "cat" and 70.0.
C10_ConfidenceFilter ==
    /\ (extraction.called /\ ~extraction.result.none) => ExtractedAsClaimed(extraction)
    /\ (/\ extraction.called /\ ~extraction.result.none
        /\ extractionBefore.called /\ ~extractionBefore.result.none
        /\ extractionBefore.threshold <= extraction.threshold) =>
            Len(extraction.result.bounding_boxes)
               <= Len(extractionBefore.result.bounding_boxes)
    /\ (/\ extraction.called /\ ~extraction.result.none
        /\ ocr_data.text = <<"cat", "dog">> /\ ocr_data.conf = <<70, 40>>
        /\ extraction.threshold = 60) =>
            /\ extraction.result.text = <<"cat">>
            /\ extraction.result.confidence = [num |-> 70, den |-> 1]

\* the image holds a token at the threshold, one above and one below it, was
\* extracted with a lower threshold before, and two tokens are kept
C10_Witness ==
    /\ extraction.called /\ ~extraction.result.none
    /\ extractionBefore.called /\ ~extractionBefore.result.none
    /\ extractionBefore.threshold < extraction.threshold
    /\ \E i \in 1..Len(ocr_data.conf) : ocr_data.conf[i] = extraction.threshold
    /\ \E i \in 1..Len(ocr_data.conf) : ocr_data.conf[i] < extraction.threshold
    /\ Len(extraction.result.bounding_boxes) >= 1
    /\ Len(extraction.result.bounding_boxes)
          < Len(extractionBefore.result.bounding_boxes)

\* C14: the temporary page images are gone when process_pdf is left, and
\* they are removed only after every submitted page task has finished: a task
\* that is queued or running still has its image.
C14_TempFilesOutliveTasks ==
    /\ pdfPc \in {"done", "interrupted"} => tempFiles = {}
    /\ \A i \in DOMAIN task : task[i] # "done" => i \in tempFiles

\* what process_pdf returns for a PDF none of whose pages yields a result:
\* the list `results`, to which nothing was appended
EmptyDocumentOutcome == <<>>

\* C12: what process_pdf returns when extraction could not be performed
\* differs from what it returns for a legitimately empty document.
C12_FailureDistinctFromEmpty ==
    (pdfPc = "done" /\ pdfRaised) => returned # EmptyDocumentOutcome

\* C11: for an image whose page extraction succeeds, process_file returns the
\* text the page extractor extracts from it.
C11_ImageDelegatesToPageExtractor ==
    (fileCall.called /\ fileCall.path = ImageFile /\ fileCall.image_ok) =>
        /\ ~fileCall.result.none
        /\ fileCall.result.text =
              process_image(ocr_data, fileCall.threshold, FALSE).text

\* C13: preprocess never raises, and when one of its steps fails it returns
\* the very image it was given.
C13_PreprocessReturnsInputOnError ==
    prep.called =>
        /\ ~prep.raised
        /\ prep.failAt # "none" => prep.output = prep.image

====
